---- MODULE Spec2Model ----
(***************************************************************************)
(* Model of lamprinidis_api_challenge.py: the two GeoJSON parsers          *)
(* (parse_fire_data, parse_wfs_data), the summary statistics               *)
(* (analyze_data) and the spatio-temporal correlation                      *)
(* (compare_detection_times).                                              *)
(*                                                                         *)
(* Each function is a specification of its own over a shared set of        *)
(* variables: SpecCompare, SpecParse, SpecStats.  The variables a          *)
(* specification does not use keep the value Unused.                       *)
(***************************************************************************)
EXTENDS Integers, Sequences, FiniteSets

VARIABLES
    pc,              \* position in the function being run
    idx,             \* 1-based position of the for loop over the input list
    public_records,  \* compare_detection_times: argument public_records
    wfs_records,     \* compare_detection_times: argument wfs_records
    early_detected,  \* compare_detection_times: the list being built
    parser,          \* which parser runs: "fire" or "wfs"
    geojson_data,    \* parse_fire_data / parse_wfs_data: argument
    records,         \* fire_records / wfs_records being built by the parser
    fire_records,    \* analyze_data: argument
    analysis         \* analyze_data: the returned dictionary

vars == <<pc, idx, public_records, wfs_records, early_detected,
          parser, geojson_data, records, fire_records, analysis>>

Unused == <<>>

\* ---------------------------------------------------------------- bounds
MaxPoints == 2
MaxPolys == 2
MaxFeatures == 3
MaxRecords == 3

\* All sequences over S of length at most n.
SeqsUpTo(S, n) == UNION {[1..k -> S] : k \in 0..n}

\* ------------------------------------------------------------ date-times
\* A timezone-aware datetime in UTC: whole seconds since the epoch and the
\* milliseconds within the second.
DateTime(s, ms) == [sec |-> s, msec |-> ms]

\* Variant: <= in place of <.
BeforeOrEqual(a, b) == a.sec < b.sec \/ (a.sec = b.sec /\ a.msec <= b.msec)

\* a < b on aware datetimes.
Before(a, b) == a.sec < b.sec \/ (a.sec = b.sec /\ a.msec < b.msec)

\* ------------------------------------------------------------- geometry
\* A ring is a sequence of integer vertices <<x, y>>, closed implicitly.
\* A (multi)polygon is a sequence of parts, each given by its exterior ring.
NextVertex(ring, k) == ring[(k % Len(ring)) + 1]

Min2(a, b) == IF a <= b THEN a ELSE b
Max2(a, b) == IF a >= b THEN a ELSE b

\* p lies on the closed segment a-b.
OnSegment(p, a, b) ==
    /\ (b[1] - a[1]) * (p[2] - a[2]) = (b[2] - a[2]) * (p[1] - a[1])
    /\ Min2(a[1], b[1]) <= p[1] /\ p[1] <= Max2(a[1], b[1])
    /\ Min2(a[2], b[2]) <= p[2] /\ p[2] <= Max2(a[2], b[2])

OnRing(p, ring) ==
    \E k \in 1..Len(ring) : OnSegment(p, ring[k], NextVertex(ring, k))

\* The horizontal ray from p towards +x crosses the edge a-b.
RayCrosses(p, a, b) ==
    /\ (a[2] > p[2]) # (b[2] > p[2])
    /\ IF b[2] > a[2]
         THEN (p[1] - a[1]) * (b[2] - a[2]) < (p[2] - a[2]) * (b[1] - a[1])
         ELSE (p[1] - a[1]) * (b[2] - a[2]) > (p[2] - a[2]) * (b[1] - a[1])

\* p is in the open interior of the ring (even-odd rule, boundary excluded).
InRingInterior(p, ring) ==
    /\ ~OnRing(p, ring)
    /\ Cardinality({k \in 1..Len(ring) :
                      RayCrosses(p, ring[k], NextVertex(ring, k))}) % 2 = 1

OnBoundary(poly, p) == \E n \in 1..Len(poly) : OnRing(p, poly[n])

\* Boundary-inclusive variant (shapely's covers); not what the code calls.
Covers(poly, p) ==
    \E n \in 1..Len(poly) : InRingInterior(p, poly[n]) \/ OnRing(p, poly[n])

\* poly.contains(fire_point): the point lies in the interior of the
\* (multi)polygon; a point on the boundary is not contained.
Contains(poly, p) ==
    \E n \in 1..Len(poly) : InRingInterior(p, poly[n])

\* ------------------------------------------- compare_detection_times
Match(record, wfs) ==
    [coordinates        |-> record.coordinates,
     wfs_detection_time |-> wfs.detection_time,
     official_time      |-> record.detection_time,
     incident_size      |-> record.incident_size]

\* Variant: the inner loop without its break.
RECURSIVE ScanNoBreak(_, _, _)
ScanNoBreak(record, wfs, j) ==
    IF j > Len(wfs) THEN <<>>
    ELSE IF /\ Contains(wfs[j].polygon, record.coordinates)
            /\ Before(wfs[j].detection_time, record.detection_time)
         THEN <<Match(record, wfs[j])>> \o ScanNoBreak(record, wfs, j + 1)
         ELSE ScanNoBreak(record, wfs, j + 1)

\* Variant: the last qualifying polygon wins instead of the first.
RECURSIVE ScanLastQualifying(_, _, _)
ScanLastQualifying(record, wfs, j) ==
    IF j > Len(wfs) THEN <<>>
    ELSE IF /\ Contains(wfs[j].polygon, record.coordinates)
            /\ Before(wfs[j].detection_time, record.detection_time)
            /\ ScanLastQualifying(record, wfs, j + 1) = <<>>
         THEN <<Match(record, wfs[j])>>
         ELSE ScanLastQualifying(record, wfs, j + 1)

\* Variant: stop at the first containing polygon, then compare the times.
RECURSIVE ScanFirstContaining(_, _, _)
ScanFirstContaining(record, wfs, j) ==
    IF j > Len(wfs) THEN <<>>
    ELSE IF Contains(wfs[j].polygon, record.coordinates)
         THEN IF Before(wfs[j].detection_time, record.detection_time)
                THEN <<Match(record, wfs[j])>>
                ELSE <<>>
         ELSE ScanFirstContaining(record, wfs, j + 1)

\* The inner loop over wfs_records from position j on: the matches it
\* appends for this record (none or one, because of the break).
RECURSIVE ScanPolygons(_, _, _)
ScanPolygons(record, wfs, j) ==
    IF j > Len(wfs) THEN <<>>
    ELSE IF /\ Contains(wfs[j].polygon, record.coordinates)
            /\ Before(wfs[j].detection_time, record.detection_time)
         THEN <<Match(record, wfs[j])>>
         ELSE ScanPolygons(record, wfs, j + 1)

\* Inputs of compare_detection_times.
SquareA == << <<0, 0>>, <<4, 0>>, <<4, 4>>, <<0, 4>> >>
TriangleC == << <<2, 2>>, <<6, 2>>, <<2, 6>> >>
SquareD == << <<6, 6>>, <<8, 6>>, <<8, 8>>, <<6, 8>> >>

Geometries == { <<SquareA>>, <<TriangleC, SquareD>> }

FirePoints ==
    { [coordinates |-> <<3, 3>>, incident_size |-> 50],    \* inside both
      [coordinates |-> <<4, 1>>, incident_size |-> 1200],  \* on an edge of SquareA
      [coordinates |-> <<3, 5>>, incident_size |-> 7] }    \* on the slanted edge of TriangleC

\* Detection times of the polygons: 10:00:00, 12:00:00 and 12:00:00.500.
Instants == { DateTime(36000, 0), DateTime(43200, 0), DateTime(43200, 500) }

\* Official discovery times of the points: 12:00:00 and 12:00:00.500.
OfficialInstants == { DateTime(43200, 0), DateTime(43200, 500) }

PublicInputs ==
    { [coordinates |-> f.coordinates, detection_time |-> t,
       incident_size |-> f.incident_size] : f \in FirePoints, t \in OfficialInstants }

WfsInputs == { [polygon |-> g, detection_time |-> t] : g \in Geometries, t \in Instants }

InitCompare ==
    /\ pc = "compare"
    /\ idx = 1
    /\ public_records \in SeqsUpTo(PublicInputs, MaxPoints)
    /\ wfs_records \in SeqsUpTo(WfsInputs, MaxPolys)
    /\ early_detected = <<>>
    /\ parser = Unused /\ geojson_data = Unused /\ records = Unused
    /\ fire_records = Unused /\ analysis = Unused

CompareUnchanged ==
    UNCHANGED <<public_records, wfs_records, parser, geojson_data, records,
                fire_records, analysis>>

\* One iteration of the outer loop in which the inner loop appends and breaks.
CompareMatch ==
    /\ pc = "compare"
    /\ idx <= Len(public_records)
    /\ ScanPolygons(public_records[idx], wfs_records, 1) # <<>>
    /\ early_detected' =
         early_detected \o ScanPolygons(public_records[idx], wfs_records, 1)
    /\ idx' = idx + 1
    /\ pc' = pc
    /\ CompareUnchanged

\* One iteration of the outer loop in which the inner loop runs to its end.
CompareNoMatch ==
    /\ pc = "compare"
    /\ idx <= Len(public_records)
    /\ ScanPolygons(public_records[idx], wfs_records, 1) = <<>>
    /\ idx' = idx + 1
    /\ UNCHANGED <<pc, early_detected>>
    /\ CompareUnchanged

CompareReturn ==
    /\ pc = "compare"
    /\ idx > Len(public_records)
    /\ pc' = "done"
    /\ UNCHANGED <<idx, early_detected>>
    /\ CompareUnchanged

NextCompare == CompareMatch \/ CompareNoMatch \/ CompareReturn

SpecCompare == InitCompare /\ [][NextCompare]_vars

\* ---------------------------------------- properties of SpecCompare
\* a is an earlier instant than b, in milliseconds since the epoch.
StrictlyBefore(a, b) == a.sec * 1000 + a.msec < b.sec * 1000 + b.msec

\* The public records the outer loop has finished with.
Processed == SubSeq(public_records, 1, idx - 1)

\* The input record a match was built from.
PointOf(m) ==
    [coordinates   |-> m.coordinates,
     detection_time |-> m.official_time,
     incident_size |-> m.incident_size]

PointsOf(ms) == [k \in 1..Len(ms) |-> PointOf(ms[k])]

HasMatch(record) ==
    \E k \in 1..Len(early_detected) : PointOf(early_detected[k]) = record

ContainingPolys(record) ==
    {j \in 1..Len(wfs_records) :
        Contains(wfs_records[j].polygon, record.coordinates)}

EarlierPolys(record) ==
    {j \in ContainingPolys(record) :
        StrictlyBefore(wfs_records[j].detection_time, record.detection_time)}

Least(S) == CHOOSE j \in S : \A k \in S : j <= k

SomeContainingIsEarlier(record) == EarlierPolys(record) # {}

FirstContainingIsEarlier(record) ==
    /\ ContainingPolys(record) # {}
    /\ Least(ContainingPolys(record)) \in EarlierPolys(record)

C2_FirstQualifyingPolygonWins ==
    LET matched == SelectSeq(Processed, SomeContainingIsEarlier)
    IN /\ Len(early_detected) = Len(matched)
       /\ \A k \in 1..Len(early_detected) :
            early_detected[k].wfs_detection_time
              = wfs_records[Least(EarlierPolys(matched[k]))].detection_time

\* A finished run where a matched point lies in several earlier polygons
\* and the first of them is not the earliest.
C2_Witness ==
    /\ pc = "done"
    /\ \E i \in 1..Len(public_records) :
         LET r == public_records[i]
         IN /\ HasMatch(r)
            /\ \E j \in EarlierPolys(r) :
                 StrictlyBefore(wfs_records[j].detection_time,
                        wfs_records[Least(EarlierPolys(r))].detection_time)

\* The case of C3: one polygon only, strictly earlier than the point, and
\* the point exactly on its boundary.
OnEdgeOfOnlyPolygon(record) ==
    /\ Len(wfs_records) = 1
    /\ OnBoundary(wfs_records[1].polygon, record.coordinates)
    /\ StrictlyBefore(wfs_records[1].detection_time, record.detection_time)

InsideOnlyPolygon(record) ==
    /\ Len(wfs_records) = 1
    /\ ~OnBoundary(wfs_records[1].polygon, record.coordinates)
    /\ Covers(wfs_records[1].polygon, record.coordinates)
    /\ StrictlyBefore(wfs_records[1].detection_time, record.detection_time)

C4_MatchesStrictlyEarlier ==
    /\ \A k \in 1..Len(early_detected) :
         LET m == early_detected[k]
         IN /\ StrictlyBefore(m.wfs_detection_time, m.official_time)
            /\ \E j \in ContainingPolys(PointOf(m)) :
                 wfs_records[j].detection_time = m.wfs_detection_time
    /\ \A i \in 1..Len(public_records) :
         (/\ ContainingPolys(public_records[i]) # {}
          /\ EarlierPolys(public_records[i]) = {})
            => ~HasMatch(public_records[i])

\* A finished run with a match and with a point whose containing polygon
\* has exactly the point's time.
C4_Witness ==
    /\ pc = "done"
    /\ early_detected # <<>>
    /\ \E i \in 1..Len(public_records) :
         /\ ~HasMatch(public_records[i])
         /\ \E j \in ContainingPolys(public_records[i]) :
              wfs_records[j].detection_time = public_records[i].detection_time

\* ms, read as the points they were built from, is a sub-sequence of ps.
RECURSIVE Embeds(_, _)
Embeds(ms, ps) ==
    IF ms = <<>> THEN TRUE
    ELSE IF ps = <<>> THEN FALSE
    ELSE IF PointOf(Head(ms)) = Head(ps)
         THEN Embeds(Tail(ms), Tail(ps))
         ELSE Embeds(ms, Tail(ps))

\* C5: the matches are an order-preserving sub-sequence of the points
\* handled so far, one match per point at most.
C5_MatchesAreSubsequence ==
    /\ Len(early_detected) <= Len(Processed)
    /\ Embeds(early_detected, Processed)

\* A finished run over two or more points, one of them inside two earlier
\* polygons, with a matched and an unmatched point.
C5_Witness ==
    /\ pc = "done"
    /\ Len(public_records) >= 2
    /\ early_detected # <<>>
    /\ Len(early_detected) < Len(public_records)
    /\ \E i \in 1..Len(public_records) :
         Cardinality(EarlierPolys(public_records[i])) >= 2

\* ------------------------------------------------------ Python values
\* JSON values as Python sees them, tagged by type.  Absent stands for a
\* key that a dictionary does not have.
Absent == [t |-> "absent"]
PyNone == [t |-> "None"]
PyInt(n) == [t |-> "int", v |-> n]
PyStr(s) == [t |-> "str", s |-> s]
PyList(items) == [t |-> "list", items |-> items]

\* Variant: dict.get(key, 0).
GetOrZero(value) == IF value = Absent THEN PyInt(0) ELSE value

\* dict.get(key): None for a key that is not there.
Get(value) == IF value = Absent THEN PyNone ELSE value

\* The texts float() reads as a number, and the number.
NumericTexts == {"40"}
NumberOfText(s) == CASE s = "40" -> 40

\* Variant: a float() that rejects negative numbers.
FloatNonNegative(v) ==
    IF v.t = "int" /\ v.v >= 0 THEN [ok |-> TRUE, value |-> v.v]
    ELSE IF v.t = "str" /\ v.s \in NumericTexts
         THEN [ok |-> TRUE, value |-> NumberOfText(v.s)]
         ELSE [ok |-> FALSE]

\* float(incident_size): the number, or ok = FALSE where float() raises.
Float(v) ==
    IF v.t = "int" THEN [ok |-> TRUE, value |-> v.v]
    ELSE IF v.t = "str" /\ v.s \in NumericTexts
         THEN [ok |-> TRUE, value |-> NumberOfText(v.s)]
         ELSE [ok |-> FALSE]

\* datetime.fromtimestamp(discovery_ts / 1000, tz=timezone.utc)
FromTimestamp(ms) == DateTime(ms \div 1000, ms % 1000)

\* The ISO 8601 texts of the model: wall-clock seconds since 1970-01-01
\* and the UTC offset in seconds; ok = FALSE where fromisoformat raises.
IsoFields(s) ==
    CASE s = "1970-01-01T12:00:00+02:00" ->
           [ok |-> TRUE, local |-> 43200, offset |-> 7200]
      [] s = "1970-01-01T12:00:00+00:00" ->
           [ok |-> TRUE, local |-> 43200, offset |-> 0]
      [] OTHER -> [ok |-> FALSE]

\* datetime.fromisoformat(detection_str).astimezone(timezone.utc)
FromIsoToUtc(s) == DateTime(IsoFields(s).local - IsoFields(s).offset, 0)

\* ---------------------------------------------------- parse_fire_data
\* feature["geometry"]["coordinates"] or feature["properties"] raises.
FireLookupRaises(feature) ==
    \/ feature.geometry = Absent
    \/ feature.geometry.t # "dict"
    \/ feature.geometry.coordinates = Absent
    \/ feature.properties = Absent

\* The body of the for loop: the records it appends for one feature, none
\* on continue and on a caught exception.
parse_fire_feature(feature) ==
    IF FireLookupRaises(feature) \/ feature.properties.t # "dict" THEN <<>>
    ELSE
      LET coords == feature.geometry.coordinates
          discovery_ts == Get(feature.properties.FireDiscoveryDateTime)
          incident_size == Get(feature.properties.IncidentSize)
      IN IF discovery_ts = PyNone THEN <<>>
         ELSE IF discovery_ts.t # "int" THEN <<>>
         ELSE IF incident_size = PyNone THEN <<>>
         ELSE IF coords.t # "list" \/ ~Float(incident_size).ok THEN <<>>
         ELSE << [coordinates    |-> coords.items,
                  detection_time |-> FromTimestamp(discovery_ts.v),
                  incident_size  |-> Float(incident_size).value] >>

\* ----------------------------------------------------- parse_wfs_data
\* A GeoJSON linear ring repeats its first vertex at the end.
OpenRing(ring) == SubSeq(ring, 1, Len(ring) - 1)

\* shape(geometry): the (multi)polygon as a sequence of exterior rings;
\* ok = FALSE where shape raises.
Shape(geometry) ==
    IF geometry.t # "dict" THEN [ok |-> FALSE]
    ELSE IF geometry.type = "Polygon"
         THEN [ok |-> TRUE, poly |-> <<OpenRing(geometry.coordinates[1])>>]
    ELSE IF geometry.type = "MultiPolygon"
         THEN [ok |-> TRUE,
               poly |-> [n \in 1..Len(geometry.coordinates) |->
                            OpenRing(geometry.coordinates[n][1])]]
    ELSE [ok |-> FALSE]

parse_wfs_feature(feature) ==
    IF \/ feature.geometry = Absent
       \/ feature.properties = Absent
       \/ ~Shape(feature.geometry).ok
       \/ feature.properties.t # "dict"
    THEN <<>>
    ELSE
      LET detection_str == Get(feature.properties.oldest_detection)
      IN IF detection_str = PyNone THEN <<>>
         ELSE IF detection_str.t # "str" \/ ~IsoFields(detection_str.s).ok THEN <<>>
         ELSE << [polygon        |-> Shape(feature.geometry).poly,
                  detection_time |-> FromIsoToUtc(detection_str.s)] >>

\* ------------------------------------------------- inputs of the parsers
PointGeometry(c) == [t |-> "dict", type |-> "Point", coordinates |-> c]
FireProperties(ts, sz) ==
    [t |-> "dict", FireDiscoveryDateTime |-> ts, IncidentSize |-> sz]
FireFeature(c, ts, sz) ==
    [geometry |-> PointGeometry(c), properties |-> FireProperties(ts, sz)]

FireFeatures ==
    { FireFeature(PyList(<<3, 3>>), PyInt(43200500), PyInt(50)),
      FireFeature(PyList(<<4, 1>>), PyInt(36000000), PyStr("40")),
      FireFeature(PyList(<<3, 5>>), PyInt(43200000), PyInt(0 - 3)),
      FireFeature(PyList(<<1, 1>>), Absent, PyInt(10)),
      FireFeature(PyList(<<1, 2>>), PyInt(1000), Absent),
      FireFeature(PyList(<<1, 3>>), PyNone, PyInt(10)),
      FireFeature(PyList(<<2, 1>>), PyStr("2024-07-04"), PyInt(10)),
      FireFeature(PyList(<<2, 2>>), PyInt(1000), PyStr("n/a")),
      FireFeature(PyInt(7), PyInt(1000), PyInt(10)),
      FireFeature(Absent, PyInt(1000), PyInt(10)),
      [geometry |-> PyNone, properties |-> FireProperties(PyInt(1000), PyInt(10))],
      [geometry |-> PointGeometry(PyList(<<2, 3>>)), properties |-> Absent],
      [geometry |-> PointGeometry(PyList(<<2, 4>>)), properties |-> PyNone] }

ClosedRing(ring) == Append(ring, ring[1])
PolygonGeometry(ring) ==
    [t |-> "dict", type |-> "Polygon", coordinates |-> <<ClosedRing(ring)>>]
MultiPolygonGeometry(rings) ==
    [t |-> "dict", type |-> "MultiPolygon",
     coordinates |-> [n \in 1..Len(rings) |-> <<ClosedRing(rings[n])>>]]
WfsFeature(g, od) ==
    [geometry |-> g, properties |-> [t |-> "dict", oldest_detection |-> od]]

WfsFeatures ==
    { WfsFeature(PolygonGeometry(SquareA), PyStr("1970-01-01T12:00:00+02:00")),
      WfsFeature(MultiPolygonGeometry(<<TriangleC, SquareD>>),
                 PyStr("1970-01-01T12:00:00+00:00")),
      WfsFeature(PolygonGeometry(SquareA), Absent),
      WfsFeature(PolygonGeometry(SquareA), PyStr("last tuesday")),
      WfsFeature([t |-> "dict", type |-> "Blob", coordinates |-> <<>>],
                 PyStr("1970-01-01T12:00:00+00:00")),
      WfsFeature(PyNone, PyStr("1970-01-01T12:00:00+00:00")),
      [geometry |-> PolygonGeometry(SquareA), properties |-> Absent] }

\* The documents handed to a parser: None, a dictionary without
\* "features", one whose "features" is null, and feature collections.
Documents(F) ==
    { PyNone,
      [t |-> "dict", features |-> Absent],
      [t |-> "dict", features |-> PyNone] }
    \cup { [t |-> "dict", features |-> PyList(fs)] : fs \in SeqsUpTo(F, MaxFeatures) }

InitParse ==
    /\ pc = "start"
    /\ idx = 1
    /\ parser \in {"fire", "wfs"}
    /\ geojson_data \in
         IF parser = "fire" THEN Documents(FireFeatures) ELSE Documents(WfsFeatures)
    /\ records = <<>>
    /\ public_records = Unused /\ wfs_records = Unused /\ early_detected = Unused
    /\ fire_records = Unused /\ analysis = Unused

ParseUnchanged ==
    UNCHANGED <<parser, geojson_data, public_records, wfs_records,
                early_detected, fire_records, analysis>>

\* not geojson_data or "features" not in geojson_data
NoValidData(doc) == IF doc = PyNone THEN TRUE ELSE doc.features = Absent

\* if not geojson_data or "features" not in geojson_data: return []
ParseNoData ==
    /\ pc = "start"
    /\ NoValidData(geojson_data)
    /\ pc' = "done"
    /\ UNCHANGED <<idx, records>>
    /\ ParseUnchanged

\* for feature in geojson_data["features"]: the list is iterable.
ParseEnterLoop ==
    /\ pc = "start"
    /\ ~NoValidData(geojson_data)
    /\ geojson_data.features.t = "list"
    /\ pc' = "loop"
    /\ UNCHANGED <<idx, records>>
    /\ ParseUnchanged

\* for feature in geojson_data["features"]: iterating None raises
\* TypeError outside the try block.
ParseIterateRaises ==
    /\ pc = "start"
    /\ ~NoValidData(geojson_data)
    /\ geojson_data.features.t # "list"
    /\ pc' = "raised"
    /\ UNCHANGED <<idx, records>>
    /\ ParseUnchanged

\* The records the loop body appends for one feature.
FeatureRecords(feature) ==
    IF parser = "fire" THEN parse_fire_feature(feature)
                       ELSE parse_wfs_feature(feature)

ParseAppend ==
    /\ pc = "loop"
    /\ idx <= Len(geojson_data.features.items)
    /\ FeatureRecords(geojson_data.features.items[idx]) # <<>>
    /\ records' = records \o FeatureRecords(geojson_data.features.items[idx])
    /\ idx' = idx + 1
    /\ pc' = pc
    /\ ParseUnchanged

\* continue: a missing timestamp or size, or an exception caught.
ParseSkip ==
    /\ pc = "loop"
    /\ idx <= Len(geojson_data.features.items)
    /\ FeatureRecords(geojson_data.features.items[idx]) = <<>>
    /\ idx' = idx + 1
    /\ UNCHANGED <<pc, records>>
    /\ ParseUnchanged

ParseReturn ==
    /\ pc = "loop"
    /\ idx > Len(geojson_data.features.items)
    /\ pc' = "done"
    /\ UNCHANGED <<idx, records>>
    /\ ParseUnchanged

NextParse ==
    \/ ParseNoData
    \/ ParseEnterLoop
    \/ ParseIterateRaises
    \/ ParseAppend
    \/ ParseSkip
    \/ ParseReturn

SpecParse == InitParse /\ [][NextParse]_vars

\* ------------------------------------------ properties of SpecParse
\* The features of the document, if it has a list of them.
FeatureList ==
    IF NoValidData(geojson_data) THEN <<>>
    ELSE IF geojson_data.features.t = "list"
         THEN geojson_data.features.items
         ELSE <<>>

\* The features the loop has finished with.
FeaturesSeen == SubSeq(FeatureList, 1, idx - 1)

HasCoordinates(f) ==
    /\ f.geometry # Absent
    /\ f.geometry.t = "dict"
    /\ f.geometry.coordinates.t = "list"

HasTimestamp(f) ==
    /\ f.properties # Absent
    /\ f.properties.t = "dict"
    /\ f.properties.FireDiscoveryDateTime.t = "int"

HasSize(f) ==
    /\ f.properties # Absent
    /\ f.properties.t = "dict"
    /\ \/ f.properties.IncidentSize.t = "int"
       \/ /\ f.properties.IncidentSize.t = "str"
          /\ f.properties.IncidentSize.s \in NumericTexts

IsComplete(f) == HasCoordinates(f) /\ HasTimestamp(f) /\ HasSize(f)

SizeGiven(f) ==
    IF f.properties.IncidentSize.t = "int"
      THEN f.properties.IncidentSize.v
      ELSE NumberOfText(f.properties.IncidentSize.s)

\* C6: parse_fire_data yields exactly one record per feature that has
\* coordinates, a timestamp and a size, in input order; every other
\* feature is dropped without touching its neighbours' records.
C6_OneRecordPerCompleteFeature ==
    parser = "fire" =>
        LET kept == SelectSeq(FeaturesSeen, IsComplete)
        IN /\ Len(records) = Len(kept)
           /\ \A k \in 1..Len(records) :
                /\ records[k].coordinates = kept[k].geometry.coordinates.items
                /\ records[k].detection_time.sec * 1000 + records[k].detection_time.msec
                     = kept[k].properties.FireDiscoveryDateTime.v

\* Three features, the middle one without a timestamp, two records.
C6_Witness ==
    /\ pc = "done"
    /\ parser = "fire"
    /\ Len(FeatureList) = 3
    /\ IsComplete(FeatureList[1])
    /\ FeatureList[2].properties # Absent
    /\ FeatureList[2].properties.t = "dict"
    /\ FeatureList[2].properties.FireDiscoveryDateTime = Absent
    /\ IsComplete(FeatureList[3])
    /\ Len(records) = 2

\* C7 as stated: every record of parse_fire_data has incident_size >= 0.
C7_SizesNonNegative ==
    parser = "fire" =>
        \A k \in 1..Len(records) : records[k].incident_size >= 0

\* C7 amended: every record carries the IncidentSize of its feature as a
\* number, whatever its sign; a negative IncidentSize is kept, not dropped.
C7_SizesCopiedUnchecked ==
    parser = "fire" =>
        LET kept == SelectSeq(FeaturesSeen, IsComplete)
        IN /\ Len(records) = Len(kept)
           /\ \A k \in 1..Len(records) :
                records[k].incident_size = SizeGiven(kept[k])

\* A finished parse that returns a record of negative size.
C7_Witness ==
    /\ pc = "done"
    /\ parser = "fire"
    /\ \E k \in 1..Len(records) : records[k].incident_size < 0

\* C10: no exception escapes parse_fire_data or parse_wfs_data, whatever
\* the document.
C10_NoExceptionEscapes == pc # "raised"

\* -------------------------------------------------------- analyze_data
LargeFireAcres == 1000

\* record["detection_time"].hour
Hour(dt) == (dt.sec \div 3600) % 24

RECURSIVE Sum(_)
Sum(s) == IF s = <<>> THEN 0 ELSE Head(s) + Sum(Tail(s))

\* value_counts(): how often hour h occurs.
CountOf(h, hours) == Cardinality({k \in 1..Len(hours) : hours[k] = h})

MaxCount(hours) ==
    CHOOSE c \in 0..Len(hours) :
        /\ \A k \in 1..Len(hours) : CountOf(hours[k], hours) <= c
        /\ \E k \in 1..Len(hours) : CountOf(hours[k], hours) = c

\* The smallest count among the hours present.
MinCount(hours) ==
    CHOOSE c \in 0..Len(hours) :
        /\ \A k \in 1..Len(hours) : CountOf(hours[k], hours) >= c
        /\ \E k \in 1..Len(hours) : CountOf(hours[k], hours) = c

\* Variant: idxmin in place of idxmax.
LeastCommonHour(hours) ==
    LET first == CHOOSE k \in 1..Len(hours) :
                    /\ CountOf(hours[k], hours) = MinCount(hours)
                    /\ \A n \in 1..(k - 1) :
                         CountOf(hours[n], hours) # MinCount(hours)
    IN hours[first]

\* df["hour"].value_counts().idxmax(): value_counts lists the hours by
\* descending count, hours of equal count in the order of their first
\* appearance in the data; idxmax takes the first of the largest count.
MostCommonHour(hours) ==
    LET first == CHOOSE k \in 1..Len(hours) :
                    /\ CountOf(hours[k], hours) = MaxCount(hours)
                    /\ \A n \in 1..(k - 1) :
                         CountOf(hours[n], hours) # MaxCount(hours)
    IN hours[first]

\* Variant: >= in place of >.
IsLargeOrEqual(size) == size >= LargeFireAcres

\* df["size"] > 1000
IsLarge(size) == size > LargeFireAcres

\* if len(df) > 1
EnoughToCorrelate(n) == n > 1

\* df["hour"].corr(df["size"]): Pearson's r, kept as its three integer
\* ingredients (n times the co-moment and the two second moments); r is
\* NaN where a second moment is zero.
Corr(xs, ys) ==
    LET n == Len(xs)
        xy == [k \in 1..n |-> xs[k] * ys[k]]
        xx == [k \in 1..n |-> xs[k] * xs[k]]
        yy == [k \in 1..n |-> ys[k] * ys[k]]
    IN [t |-> "float",
        cov  |-> n * Sum(xy) - Sum(xs) * Sum(ys),
        varx |-> n * Sum(xx) - Sum(xs) * Sum(xs),
        vary |-> n * Sum(yy) - Sum(ys) * Sum(ys)]

\* The dictionary analyze_data returns.
analyze_data(recs) ==
    LET hours == [k \in 1..Len(recs) |-> Hour(recs[k].detection_time)]
        sizes == [k \in 1..Len(recs) |-> recs[k].incident_size]
    IN [dataframe        |-> [hour |-> hours, size |-> sizes],
        most_common_hour |-> IF Len(recs) # 0
                               THEN PyInt(MostCommonHour(hours))
                               ELSE PyNone,
        large_fire_count |-> Cardinality({k \in 1..Len(recs) : IsLarge(sizes[k])}),
        correlation      |-> IF EnoughToCorrelate(Len(recs))
                               THEN Corr(hours, sizes)
                               ELSE PyNone]

\* Inputs of analyze_data: 05:00, 09:00:59 and 05:00 of the next day.
StatsInstants == { DateTime(18000, 0), DateTime(32459, 0), DateTime(104400, 0) }
StatsSizes == { 10, 1000, 2000 }
StatsInputs ==
    { [coordinates |-> <<3, 3>>, detection_time |-> t, incident_size |-> z] :
        t \in StatsInstants, z \in StatsSizes }

InitStats ==
    /\ pc = "start"
    /\ fire_records \in SeqsUpTo(StatsInputs, MaxRecords)
    /\ analysis = Unused
    /\ idx = 1
    /\ public_records = Unused /\ wfs_records = Unused /\ early_detected = Unused
    /\ parser = Unused /\ geojson_data = Unused /\ records = Unused

StatsUnchanged ==
    UNCHANGED <<idx, fire_records, public_records, wfs_records, early_detected,
                parser, geojson_data, records>>

\* analyze_data on no record: the else branches of both tests.
AnalyzeEmpty ==
    /\ pc = "start"
    /\ fire_records = <<>>
    /\ analysis' = analyze_data(fire_records)
    /\ pc' = "done"
    /\ StatsUnchanged

\* analyze_data on one record or more.
AnalyzeRecords ==
    /\ pc = "start"
    /\ fire_records # <<>>
    /\ analysis' = analyze_data(fire_records)
    /\ pc' = "done"
    /\ StatsUnchanged

NextStats == AnalyzeEmpty \/ AnalyzeRecords

SpecStats == InitStats /\ [][NextStats]_vars

\* ------------------------------------------ properties of SpecStats
HoursGiven == [k \in 1..Len(fire_records) |-> (fire_records[k].detection_time.sec \div 3600) % 24]

Occurrences(h) == Cardinality({k \in 1..Len(fire_records) : HoursGiven[k] = h})

IsMode(h) ==
    /\ \E k \in 1..Len(fire_records) : HoursGiven[k] = h
    /\ \A g \in 0..23 : Occurrences(g) <= Occurrences(h)

\* C8 as stated: most_common_hour is an hour of maximal count and, of the
\* hours tied for it, the numerically lowest.
C8_LowestModeWins ==
    (pc = "done" /\ fire_records # <<>>) =>
        /\ IsMode(analysis.most_common_hour.v)
        /\ \A g \in 0..23 : IsMode(g) => analysis.most_common_hour.v <= g

\* C8 amended: most_common_hour is an hour of maximal count; of several
\* hours tied for it, it need not be the lowest (which one is reported
\* depends on the order of the records).
C8_ModeWins ==
    (pc = "done" /\ fire_records # <<>>) =>
        IsMode(analysis.most_common_hour.v)

\* A finished run over tied hours that reports the higher one.
C8_Witness ==
    /\ pc = "done"
    /\ fire_records # <<>>
    /\ \E g \in 0..23 : IsMode(g) /\ g < analysis.most_common_hour.v

RECURSIVE CountAbove(_, _)
CountAbove(recs, acres) ==
    IF recs = <<>> THEN 0
    ELSE (IF Head(recs).incident_size > acres THEN 1 ELSE 0)
         + CountAbove(Tail(recs), acres)

\* C9: correlation is None exactly for fewer than two records,
\* most_common_hour is None exactly for no record, and large_fire_count
\* counts the records of size strictly above 1000.
C9_DegradesOnInsufficientData ==
    pc = "done" =>
        /\ (analysis.correlation = PyNone) <=> (Len(fire_records) < 2)
        /\ (analysis.most_common_hour = PyNone) <=> (Len(fire_records) = 0)
        /\ analysis.large_fire_count = CountAbove(fire_records, 1000)

\* A finished run over two or more records, one of exactly 1000 acres and
\* one above.
C9_Witness ==
    /\ pc = "done"
    /\ Len(fire_records) >= 2
    /\ \E k \in 1..Len(fire_records) : fire_records[k].incident_size = 1000
    /\ analysis.large_fire_count >= 1
    /\ analysis.correlation # PyNone

====
